---- MODULE Spec2Model ----
(***************************************************************************)
(* Model of src/main.go: a launcher bootstrap that fetches the version     *)
(* manifest, resolves a version id, fetches the version JSON, creates the  *)
(* version directory, downloads the client jar through a ".partial" file   *)
(* and optionally runs it.                                                 *)
(*                                                                         *)
(* One run of the program is a process r; its position in main() or in     *)
(* downloadFile() is pc[r].  The file system (directories, directory       *)
(* entries, inodes) and the HTTP server's manifest are shared by all runs. *)
(* Each system call and each HTTP exchange is one atomic step.             *)
(***************************************************************************)
EXTENDS Integers, Sequences, FiniteSets, TLC

(* ------------------------------ bounds --------------------------------- *)

\* longest versions list of a served manifest
MaxVersions == 2
\* number of chunks io.Copy moves for the client jar
BodyLen == 2

(* --------------------------- input domains ----------------------------- *)

VersionIds == {"a", "b"}
MetaUrls == {"u1", "u2"}
\* downloads.client.url of a decoded version JSON ("" when the field is missing)
ClientUrls == {"", "jar-url"}
\* -version flag values; "" is the flag's default
VersionFlags == {""} \cup VersionIds
\* response status codes a GET may see (redirects are followed by the client)
Statuses == {200, 204, 206, 404, 500}

VersionRef == [Id : VersionIds, Url : MetaUrls]

SeqsUpTo(S, n) == UNION {[1..k -> S] : k \in 0..n}

VersionManifest ==
    [Release : {""} \cup VersionIds, Snapshot : VersionIds,
     Versions : SeqsUpTo(VersionRef, MaxVersions)]

\* the zero value of a Go VersionManifest (var manifest VersionManifest)
ZeroManifest == [Release |-> "", Snapshot |-> "", Versions |-> <<>>]

\* the bytes of the client jar as served: chunk i carries the value i
Body == [i \in 1..BodyLen |-> i]
\* what an earlier run may have left in a file: longer than the body
Stale == [i \in 1..(BodyLen + 1) |-> -1]

RunIds == {1, 2}

(* ------------------------------- state --------------------------------- *)

VARIABLES
    procs,      \* the runs of the program taking part
    served,     \* the manifest the manifest endpoint serves
    dirs,       \* version ids v whose directory <mcdir>/versions/v exists
    names,      \* directory entries: path -> inode (NoFile: no such file)
    inodes,     \* inode -> content (a sequence of bytes, 0 for a hole)
    pc,         \* each run's position
    alive,      \* FALSE once the process was killed
    flags,      \* each run's parsed flags
    manifest,   \* main's manifest
    vid,        \* main's vid
    vurl,       \* main's vurl
    clientUrl,  \* vjson.Downloads.Client.Url
    out,        \* downloadFile's out: the inode it refers to, whether it is
                \* open, and its file offset
    log,        \* the steps the run executed and how each ended
    requests,   \* the URLs the run issued a GET for, in order
    stderr,     \* lines written to os.Stderr
    exitCode    \* the process's exit code (-1 while it has not exited)

vars == <<procs, served, dirs, names, inodes, pc, alive, flags, manifest, vid,
          vurl, clientUrl, out, log, requests, stderr, exitCode>>

fsVars == <<dirs, names, inodes>>

(* ------------------------------- paths --------------------------------- *)

versionManifestURL == "manifest-url"

\* filepath.Join(versionDir, vid+".jar"), relative to <mcdir>/versions
JarPath(v) == <<v, "jar">>

\* a variant that streams into dest itself
PartialPath_direct(dest) == dest

\* dest + ".partial"
PartialPath(dest) == <<dest[1], "partial">>

Paths == UNION {{JarPath(v), <<v, "partial">>} : v \in VersionIds}

\* the directory entry of a path that does not exist
NoFile == <<>>

(* --------------------------- pure functions ---------------------------- *)

\* the index of the first entry of vs whose Id is id, 0 if there is none
RECURSIVE ScanFrom(_, _, _)
ScanFrom(vs, id, i) ==
    IF i > Len(vs) THEN 0
    ELSE IF vs[i].Id = id THEN i
    ELSE ScanFrom(vs, id, i + 1)

\* a variant without the early return: the last match wins
findVersionURL_last(m, id) ==
    LET S == {i \in 1..Len(m.Versions) : m.Versions[i].Id = id}
    IN  IF S = {} THEN [url |-> "", err |-> "version not found"]
        ELSE [url |-> m.Versions[CHOOSE i \in S : \A j \in S : j <= i].Url, err |-> "nil"]

\* a variant that returns "", nil when nothing matches
findVersionURL_nilErr(m, id) ==
    LET i == ScanFrom(m.Versions, id, 1)
    IN  IF i = 0 THEN [url |-> "", err |-> "nil"]
        ELSE [url |-> m.Versions[i].Url, err |-> "nil"]

findVersionURL(m, id) ==
    LET i == ScanFrom(m.Versions, id, 1)
    IN  IF i = 0 THEN [url |-> "", err |-> "version not found"]
        ELSE [url |-> m.Versions[i].Url, err |-> "nil"]

\* a variant that defaults to the latest snapshot
TargetId_snapshot(version, m) == IF version = "" THEN m.Snapshot ELSE version

\* main's choice of vid
TargetId(version, m) == IF version = "" THEN m.Release ELSE version

\* a variant that accepts every 2xx status
StatusIsError_non2xx(s) == s \notin 200..299

\* res.StatusCode != http.StatusOK
StatusIsError(s) == s # 200

\* an HTTP exchange as the client sees it
Responses ==
    {[transport |-> TRUE, status |-> 0, wellFormed |-> FALSE]}
    \cup [transport : {FALSE}, status : Statuses, wellFormed : BOOLEAN]

\* fetchJSON's result for a response: "nil" or the kind of error
fetchJSON(resp) ==
    IF resp.transport THEN "transport"
    ELSE IF StatusIsError(resp.status) THEN "status"
    ELSE IF ~resp.wellFormed THEN "decode"
    ELSE "nil"

(* ----------------------------- file system ----------------------------- *)

\* a variant that looks for the temporary file
StatOk_partial(p) == names[<<p[1], "partial">>] # NoFile

\* os.Stat(p) returns no error
StatOk(p) == names[p] # NoFile

\* the content after a write of byte b at offset o
WriteAt(c, o, b) ==
    IF o < Len(c) THEN [c EXCEPT ![o + 1] = b]
    ELSE c \o [i \in 1..(o - Len(c)) |-> 0] \o <<b>>

\* a variant that opens without O_TRUNC
Truncated_keep(c) == c

\* the content os.Create leaves in a file that existed (O_TRUNC)
Truncated(c) == <<>>

\* a variant that stops one chunk short
AtEOF_early(o) == o >= BodyLen - 1

\* io.Copy has read the whole response body
AtEOF(o) == o = BodyLen

Closed(f) == [f EXCEPT !.open = FALSE]

(* --------------------------- steps of main ----------------------------- *)

At(r, l) == r \in procs /\ alive[r] /\ pc[r] = l

Entry(step, res, status) == [step |-> step, res |-> res, status |-> status]

\* a variant that returns from main instead of calling os.Exit(1)
Fail_return(r, step, res, status, msg) ==
    /\ log' = [log EXCEPT ![r] = Append(@, Entry(step, res, status))]
    /\ stderr' = [stderr EXCEPT ![r] = Append(@, msg)]
    /\ exitCode' = [exitCode EXCEPT ![r] = 0]
    /\ pc' = [pc EXCEPT ![r] = "exit"]

\* if err != nil { fmt.Fprintln(os.Stderr, ...); os.Exit(1) }
Fail(r, step, res, status, msg) ==
    /\ log' = [log EXCEPT ![r] = Append(@, Entry(step, res, status))]
    /\ stderr' = [stderr EXCEPT ![r] = Append(@, msg)]
    /\ exitCode' = [exitCode EXCEPT ![r] = 1]
    /\ pc' = [pc EXCEPT ![r] = "exit"]

Ok(r, step, res, status, next) ==
    /\ log' = [log EXCEPT ![r] = Append(@, Entry(step, res, status))]
    /\ pc' = [pc EXCEPT ![r] = next]
    /\ UNCHANGED <<stderr, exitCode>>

FetchManifest(r) ==
    /\ At(r, "fetch_manifest")
    /\ requests' = [requests EXCEPT ![r] = Append(@, versionManifestURL)]
    /\ \E resp \in Responses :
         LET err == fetchJSON(resp)
         IN  IF err # "nil"
             THEN /\ Fail(r, "manifest", err, resp.status,
                          <<"failed to fetch manifest:", err>>)
                  /\ UNCHANGED manifest
             ELSE /\ manifest' = [manifest EXCEPT ![r] = served]
                  /\ Ok(r, "manifest", "ok", resp.status, "resolve")
    /\ UNCHANGED <<procs, served, fsVars, alive, flags, vid, vurl, clientUrl, out>>

Resolve(r) ==
    /\ At(r, "resolve")
    /\ LET id == TargetId(flags[r].version, manifest[r])
           f == findVersionURL(manifest[r], id)
       IN  /\ vid' = [vid EXCEPT ![r] = id]
           /\ vurl' = [vurl EXCEPT ![r] = f.url]
           /\ IF f.err # "nil"
              THEN Fail(r, "resolve", "notfound", 0,
                        <<"version not found in manifest:", id>>)
              ELSE Ok(r, "resolve", "ok", 0, "fetch_version")
    /\ UNCHANGED <<procs, served, fsVars, alive, flags, manifest, clientUrl, out,
                   requests>>

FetchVersionJSON(r) ==
    /\ At(r, "fetch_version")
    /\ requests' = [requests EXCEPT ![r] = Append(@, vurl[r])]
    /\ \E resp \in Responses :
         LET err == fetchJSON(resp)
         IN  IF err # "nil"
             THEN /\ Fail(r, "metadata", err, resp.status,
                          <<"failed to fetch version json:", err>>)
                  /\ UNCHANGED clientUrl
             ELSE /\ \E u \in ClientUrls : clientUrl' = [clientUrl EXCEPT ![r] = u]
                  /\ Ok(r, "metadata", "ok", resp.status, "ensure_dir")
    /\ UNCHANGED <<procs, served, fsVars, alive, flags, manifest, vid, vurl, out>>

\* a variant that drops MkdirAll's error
ensureDir_swallow(d, p, ok) ==
    IF ok \/ p \in d THEN [dirs |-> d \cup {p}, err |-> "nil"]
    ELSE [dirs |-> d, err |-> "nil"]

\* os.MkdirAll(p, 0o755): the directories afterwards and the error
ensureDir(d, p, ok) ==
    IF ok \/ p \in d THEN [dirs |-> d \cup {p}, err |-> "nil"]
    ELSE [dirs |-> d, err |-> "io"]

EnsureDir(r) ==
    /\ At(r, "ensure_dir")
    /\ \E ok \in BOOLEAN :
         LET m == ensureDir(dirs, vid[r], ok)
         IN  /\ dirs' = m.dirs
             /\ IF m.err # "nil"
                THEN Fail(r, "mkdir", m.err, 0, <<"failed to create version dir:", m.err>>)
                ELSE Ok(r, "mkdir", "ok", 0, "dl_stat")
    /\ UNCHANGED <<procs, served, names, inodes, alive, flags, manifest, vid, vurl,
                   clientUrl, out, requests>>

\* where main goes after downloadFile returned nil
AfterDownload(r) == IF flags[r].runOffline THEN "run_jar" ELSE "done"

(* ---------------------------- downloadFile ----------------------------- *)

DownloadFailed(r, res, status) ==
    Fail(r, "download", res, status, <<"failed to download client jar:", res>>)

\* if _, err := os.Stat(dest); err == nil { return nil }
Stat(r) ==
    /\ At(r, "dl_stat")
    /\ IF StatOk(JarPath(vid[r]))
       THEN Ok(r, "download", "skipped", 0, AfterDownload(r))
       ELSE /\ pc' = [pc EXCEPT ![r] = "dl_create"]
            /\ UNCHANGED <<log, stderr, exitCode>>
    /\ UNCHANGED <<procs, served, fsVars, alive, flags, manifest, vid, vurl,
                   clientUrl, out, requests>>

\* out, err := os.Create(dest + ".partial")
Create(r) ==
    /\ At(r, "dl_create")
    /\ LET p == PartialPath(JarPath(vid[r]))
       IN  \E ok \in BOOLEAN :
             IF ~ok \/ vid[r] \notin dirs
             THEN /\ DownloadFailed(r, "io", 0)
                  /\ UNCHANGED <<names, inodes, out>>
             ELSE /\ IF names[p] # NoFile
                     THEN /\ inodes' = [inodes EXCEPT ![names[p]] = Truncated(@)]
                          /\ out' = [out EXCEPT ![r] =
                                       [ino |-> names[p], open |-> TRUE, off |-> 0]]
                          /\ UNCHANGED names
                     ELSE /\ inodes' = inodes @@ (<<"new", r>> :> <<>>)
                          /\ names' = [names EXCEPT ![p] = <<"new", r>>]
                          /\ out' = [out EXCEPT ![r] =
                                       [ino |-> <<"new", r>>, open |-> TRUE, off |-> 0]]
                  /\ pc' = [pc EXCEPT ![r] = "dl_get"]
                  /\ UNCHANGED <<log, stderr, exitCode>>
    /\ UNCHANGED <<procs, served, dirs, alive, flags, manifest, vid, vurl,
                   clientUrl, requests>>

\* res, err := client.Get(url), and the status check
Get(r) ==
    /\ At(r, "dl_get")
    /\ requests' = [requests EXCEPT ![r] = Append(@, clientUrl[r])]
    /\ \E resp \in {x \in Responses : x.wellFormed = ~x.transport} :
         IF resp.transport \/ clientUrl[r] = ""
         THEN /\ DownloadFailed(r, "transport", 0)
              /\ out' = [out EXCEPT ![r] = Closed(@)]
         ELSE IF StatusIsError(resp.status)
         THEN /\ DownloadFailed(r, "status", resp.status)
              /\ out' = [out EXCEPT ![r] = Closed(@)]
         ELSE /\ Ok(r, "get", "ok", resp.status, "dl_copy")
              /\ UNCHANGED out
    /\ UNCHANGED <<procs, served, fsVars, alive, flags, manifest, vid, vurl, clientUrl>>

\* io.Copy moves one chunk of the body to out
CopyChunk(r) ==
    /\ At(r, "dl_copy")
    /\ ~AtEOF(out[r].off)
    /\ out[r].off < BodyLen
    /\ inodes' = [inodes EXCEPT ![out[r].ino] = WriteAt(@, out[r].off, Body[out[r].off + 1])]
    /\ out' = [out EXCEPT ![r].off = @ + 1]
    /\ UNCHANGED <<procs, served, dirs, names, pc, alive, flags, manifest, vid, vurl,
                   clientUrl, log, requests, stderr, exitCode>>

\* io.Copy returns an error: a read of the body or a write to out failed
CopyError(r) ==
    /\ At(r, "dl_copy")
    /\ ~AtEOF(out[r].off)
    /\ DownloadFailed(r, "copy", 0)
    /\ out' = [out EXCEPT ![r] = Closed(@)]
    /\ UNCHANGED <<procs, served, fsVars, alive, flags, manifest, vid, vurl,
                   clientUrl, requests>>

\* io.Copy returns nil at the end of the body; out.Close()
CopyDone(r) ==
    /\ At(r, "dl_copy")
    /\ AtEOF(out[r].off)
    /\ out' = [out EXCEPT ![r] = Closed(@)]
    /\ pc' = [pc EXCEPT ![r] = "dl_rename"]
    /\ UNCHANGED <<procs, served, fsVars, alive, flags, manifest, vid, vurl,
                   clientUrl, log, requests, stderr, exitCode>>

\* return os.Rename(dest+".partial", dest)
Rename(r) ==
    /\ At(r, "dl_rename")
    /\ LET dest == JarPath(vid[r])
           src == PartialPath(dest)
       IN  \E ok \in BOOLEAN :
             IF ~ok \/ names[src] = NoFile
             THEN /\ DownloadFailed(r, "io", 0)
                  /\ UNCHANGED names
             ELSE /\ names' = IF src = dest THEN names
                              ELSE [names EXCEPT ![dest] = names[src], ![src] = NoFile]
                  /\ Ok(r, "download", "ok", 0, AfterDownload(r))
    /\ UNCHANGED <<procs, served, dirs, inodes, alive, flags, manifest, vid, vurl,
                   clientUrl, out, requests>>

(* ------------------------------ the end -------------------------------- *)

\* cmd := exec.Command("java", "-jar", jarPath); cmd.Run()
RunJar(r) ==
    /\ At(r, "run_jar")
    /\ \E ok \in BOOLEAN :
         IF ok THEN Ok(r, "run", "ok", 0, "done")
         ELSE Fail(r, "run", "launch", 0, <<"java failed:", "launch">>)
    /\ UNCHANGED <<procs, served, fsVars, alive, flags, manifest, vid, vurl,
                   clientUrl, out, requests>>

\* main returns
Finish(r) ==
    /\ At(r, "done")
    /\ pc' = [pc EXCEPT ![r] = "exit"]
    /\ exitCode' = [exitCode EXCEPT ![r] = 0]
    /\ UNCHANGED <<procs, served, fsVars, alive, flags, manifest, vid, vurl,
                   clientUrl, out, log, requests, stderr>>

\* the process is killed; the kernel closes its files
Crash(r) ==
    /\ r \in procs /\ alive[r] /\ pc[r] # "exit"
    /\ alive' = [alive EXCEPT ![r] = FALSE]
    /\ out' = [out EXCEPT ![r] = Closed(@)]
    /\ UNCHANGED <<procs, served, fsVars, pc, flags, manifest, vid, vurl,
                   clientUrl, log, requests, stderr, exitCode>>

(* --------------------------- initial states ---------------------------- *)

\* what an earlier run may have left under <mcdir>/versions/<v>, for every v
Scenarios ==
    {s \in [dir : BOOLEAN, jar : {"none", "body", "stale"}, partial : BOOLEAN] :
        (s.jar # "none" \/ s.partial) => s.dir}

InitFS(s) ==
    /\ dirs = IF s.dir THEN VersionIds ELSE {}
    /\ names = [p \in Paths |->
                  IF p[2] = "jar" THEN (IF s.jar = "none" THEN NoFile ELSE p)
                  ELSE (IF s.partial THEN p ELSE NoFile)]
    /\ inodes = [p \in {q \in Paths : (q[2] = "jar" /\ s.jar # "none")
                                       \/ (q[2] = "partial" /\ s.partial)} |->
                  IF p[2] = "jar" /\ s.jar = "body" THEN Body ELSE Stale]

InitRuns(P) ==
    /\ procs = P
    /\ pc = [r \in P |-> "fetch_manifest"]
    /\ alive = [r \in P |-> TRUE]
    /\ manifest = [r \in P |-> ZeroManifest]
    /\ vid = [r \in P |-> ""]
    /\ vurl = [r \in P |-> ""]
    /\ clientUrl = [r \in P |-> ""]
    /\ out = [r \in P |-> [ino |-> NoFile, open |-> FALSE, off |-> 0]]
    /\ log = [r \in P |-> <<>>]
    /\ requests = [r \in P |-> <<>>]
    /\ stderr = [r \in P |-> <<>>]
    /\ exitCode = [r \in P |-> -1]

Flags == [version : VersionFlags, runOffline : BOOLEAN]

\* one run of the program, any manifest, any flags
Init ==
    /\ InitRuns({1})
    /\ served \in VersionManifest
    /\ flags \in [{1} -> Flags]
    /\ \E s \in Scenarios : InitFS(s)

\* two runs of the program at the same time, against one manifest
InitConc ==
    /\ InitRuns(RunIds)
    /\ served = [Release |-> "a", Snapshot |-> "b",
                 Versions |-> <<[Id |-> "a", Url |-> "u1"]>>]
    /\ flags \in [RunIds -> [version : {"", "a"}, runOffline : BOOLEAN]]
    /\ \E s \in Scenarios : InitFS(s)

Next ==
    \/ \E r \in RunIds : FetchManifest(r)
    \/ \E r \in RunIds : Resolve(r)
    \/ \E r \in RunIds : FetchVersionJSON(r)
    \/ \E r \in RunIds : EnsureDir(r)
    \/ \E r \in RunIds : Stat(r)
    \/ \E r \in RunIds : Create(r)
    \/ \E r \in RunIds : Get(r)
    \/ \E r \in RunIds : CopyChunk(r)
    \/ \E r \in RunIds : CopyError(r)
    \/ \E r \in RunIds : CopyDone(r)
    \/ \E r \in RunIds : Rename(r)
    \/ \E r \in RunIds : RunJar(r)
    \/ \E r \in RunIds : Finish(r)
    \/ \E r \in RunIds : Crash(r)

Spec == Init /\ [][Next]_vars

SpecConc == InitConc /\ [][Next]_vars

(* ======================= properties of the code ======================== *)

\* the inode an initial file has: files present at the start are their own inode
InitialInode(p) == p

\* the path of v's temporary file and of v's jar, written out
PartialOf(v) == <<v, "partial">>
JarOf(v) == <<v, "jar">>

\* a file is at v's canonical path that was not there when the run(s) started
CreatedJar(v) == names[JarOf(v)] \notin {NoFile, InitialInode(JarOf(v))}

Content(p) == inodes[names[p]]

HasEntry(r, step, res) == \E i \in 1..Len(log[r]) : log[r][i].step = step /\ log[r][i].res = res

Did(r, step) == \E i \in 1..Len(log[r]) : log[r][i].step = step

InDownload(r) == pc[r] \in {"dl_create", "dl_get", "dl_copy", "dl_rename"}

\* C1: during one run of downloadFile that starts without a file at destPath,
\* killed or failing at any point, destPath does not exist or holds the whole
\* response body; the open file is the .partial one and never destPath's; and
\* destPath exists only once the run's rename came after an error-free copy.
C1_CrashSafety ==
    /\ \A v \in VersionIds :
         CreatedJar(v) =>
           /\ Content(JarOf(v)) = Body
           /\ \E r \in procs : /\ vid[r] = v
                               /\ HasEntry(r, "download", "ok")
                               /\ ~out[r].open /\ out[r].off = BodyLen
                               /\ out[r].ino = names[JarOf(v)]
    /\ \A r \in procs :
         /\ out[r].open => /\ names[PartialOf(vid[r])] = out[r].ino
                           /\ names[JarOf(vid[r])] # out[r].ino
         /\ InDownload(r) => names[JarOf(vid[r])] = NoFile

\* C1 witness: the process was killed in mid-transfer: part of the body is in
\* the .partial file and nothing is at the canonical path
C1_Witness ==
    \E r \in procs :
        /\ ~alive[r] /\ pc[r] = "dl_copy"
        /\ out[r].off > 0 /\ out[r].off < BodyLen
        /\ names[JarOf(vid[r])] = NoFile
        /\ names[PartialOf(vid[r])] # NoFile
        /\ Content(PartialOf(vid[r])) # <<>>
        /\ Content(PartialOf(vid[r])) # Body

Resolved(r) == Did(r, "resolve")

\* the id a run asks the resolver for
Requested(r) == IF flags[r].version = "" THEN manifest[r].Release ELSE flags[r].version

Matches(vs, id) == {i \in 1..Len(vs) : vs[i].Id = id}

First(S) == CHOOSE i \in S : \A j \in S : i <= j

\* C3: when the manifest has an entry with id X, resolving X succeeds with the
\* metadata URL of the first such entry in manifest order.
C3_ResolveFound ==
    \A r \in procs :
        LET vs == manifest[r].Versions
            X == Requested(r)
        IN  (Resolved(r) /\ Matches(vs, X) # {}) =>
              /\ HasEntry(r, "resolve", "ok")
              /\ vid[r] = X
              /\ vurl[r] = vs[First(Matches(vs, X))].Url

\* C3 witness: two entries share the requested id and differ in their URL
C3_Witness ==
    \E r \in procs :
        LET vs == manifest[r].Versions
        IN  /\ Resolved(r)
            /\ Cardinality(Matches(vs, Requested(r))) = 2
            /\ vs[1].Url # vs[2].Url
            /\ vurl[r] = vs[1].Url

\* C4: when no entry of the manifest has the target id, resolution fails, the
\* run prints an error naming the id and exits with code 1, having fetched the
\* manifest only: no metadata fetch, no download, no file touched.
C4_ResolveAbsent ==
    \A r \in procs :
        LET vs == manifest[r].Versions
            X == Requested(r)
        IN  (Resolved(r) /\ Matches(vs, X) = {}) =>
              /\ HasEntry(r, "resolve", "notfound")
              /\ pc[r] = "exit" /\ exitCode[r] = 1
              /\ stderr[r] = << <<"version not found in manifest:", X>> >>
              /\ requests[r] = <<versionManifestURL>>
              /\ ~Did(r, "metadata") /\ ~Did(r, "download") /\ ~Did(r, "mkdir")
              /\ out[r].ino = NoFile

\* C4 witness: a manifest of the greatest length without the requested id
C4_Witness ==
    \E r \in procs :
        /\ Resolved(r)
        /\ flags[r].version # ""
        /\ Len(manifest[r].Versions) = MaxVersions
        /\ Matches(manifest[r].Versions, flags[r].version) = {}
        /\ exitCode[r] = 1

\* C4 witness of the empty versions list
C4_WitnessEmpty ==
    \E r \in procs :
        /\ Resolved(r) /\ HasEntry(r, "manifest", "ok")
        /\ manifest[r].Versions = <<>>
        /\ exitCode[r] = 1

\* the resolver's outcome as a run recorded it
Outcome(r) == [id |-> vid[r], url |-> vurl[r], found |-> HasEntry(r, "resolve", "ok")]

\* the resolver's outcome for manifest m and an explicitly given id
ExplicitOutcome(m, id) ==
    LET t == TargetId(id, m)
        f == findVersionURL(m, t)
    IN  [id |-> t, url |-> f.url, found |-> f.err = "nil"]

\* C5: a run without -version resolves as a run given the manifest's latest
\* release id explicitly would; the latest snapshot id plays no part.
C5_DefaultVersion ==
    \A r \in procs :
        (Resolved(r) /\ flags[r].version = "") =>
            /\ Outcome(r) = ExplicitOutcome(manifest[r], manifest[r].Release)
            /\ vid[r] = manifest[r].Release

\* C5 witness: no -version, and the latest release differs from the snapshot
C5_Witness ==
    \E r \in procs :
        /\ Resolved(r) /\ flags[r].version = ""
        /\ manifest[r].Release \notin {"", manifest[r].Snapshot}
        /\ HasEntry(r, "resolve", "ok")

\* a step that takes a run out of os.Stat with a file at destPath skips the download
C2_SkipStep ==
    \A r \in procs :
        (alive[r] /\ pc[r] = "dl_stat" /\ names[JarOf(vid[r])] # NoFile
            /\ pc'[r] # "dl_stat") =>
                /\ pc'[r] \in {"run_jar", "done"}
                /\ log'[r] = Append(log[r], Entry("download", "skipped", 0))
                /\ UNCHANGED <<dirs, names, inodes, requests, out, exitCode>>

\* a run that skipped asked for the manifest and the version JSON only
C2_Skipped ==
    \A r \in procs :
        HasEntry(r, "download", "skipped") =>
            /\ requests[r] = <<versionManifestURL, vurl[r]>>
            /\ out[r].ino = NoFile
            /\ ~Did(r, "get")
            /\ names[JarOf(vid[r])] # NoFile

\* C2: when a file is at destPath as downloadFile is called, the call is over in
\* that one step: it returns nil (skipped) with no file created, truncated or
\* written and no GET issued; a run that skipped has asked for the manifest and
\* the version JSON only and never opened a file.  So a run that follows
\* another run's successful download issues no GET for the jar.
C2_Idempotent == [][C2_SkipStep]_vars /\ []C2_Skipped

\* C2 witness: a first run downloaded the jar and a second run of the same
\* version skipped, with no GET for the jar
C2_Witness ==
    \E r1, r2 \in procs :
        /\ r1 # r2 /\ vid[r1] = vid[r2]
        /\ HasEntry(r1, "download", "ok")
        /\ HasEntry(r2, "download", "skipped")
        /\ Content(JarOf(vid[r2])) = Body
        /\ Len(requests[r2]) = 2

Succeeded(e) == e.res \in {"ok", "skipped"}

\* the steps of a full run, in order ("get" is the GET inside the download step)
Pipeline(r) ==
    <<"manifest", "resolve", "metadata", "mkdir", "download">>
    \o (IF flags[r].runOffline THEN <<"run">> ELSE <<>>)

StepsOf(r) ==
    LET idx == {i \in 1..Len(log[r]) : log[r][i].step # "get"}
        RECURSIVE Pick(_)
        Pick(i) == IF i > Len(log[r]) THEN <<>>
                   ELSE (IF i \in idx THEN <<log[r][i].step>> ELSE <<>>) \o Pick(i + 1)
    IN  Pick(1)

IsPrefix(a, b) == Len(a) <= Len(b) /\ a = SubSeq(b, 1, Len(a))

C6_WitnessFail ==
    \E r \in procs : pc[r] = "exit" /\ exitCode[r] = 1 /\ HasEntry(r, "mkdir", "io")

\* the log entries of the three GETs that got a response
HttpEntries(r) ==
    {i \in 1..Len(log[r]) :
        /\ log[r][i].step \in {"manifest", "metadata", "get", "download"}
        /\ log[r][i].status # 0}

\* C7 as claimed: a GET that got a response fails with a status error exactly
\* when the status is not 2xx.
C7_Non2xx ==
    \A r \in procs : \A i \in HttpEntries(r) :
        log[r][i].res = "status" <=> log[r][i].status \notin 200..299

\* C7 as the code has it: a GET that got a response fails with a status error
\* exactly when the status is not 200; a 200 response is decoded (fetchers) or
\* streamed (download).
C7_Not200 ==
    \A r \in procs : \A i \in HttpEntries(r) :
        /\ log[r][i].res = "status" <=> log[r][i].status # 200
        /\ log[r][i].status = 200 =>
             /\ log[r][i].res \in {"ok", "decode"}
             /\ log[r][i].res = "decode" => log[r][i].step \in {"manifest", "metadata"}
             /\ log[r][i].step = "get" => pc[r] # "dl_get"

\* C7 witness: a 2xx response other than 200 ended the download with a status error
C7_Witness ==
    \E r \in procs : \E i \in HttpEntries(r) :
        /\ log[r][i].step = "download"
        /\ log[r][i].status \in 201..299
        /\ log[r][i].res = "status"
        /\ exitCode[r] = 1

\* C8: a run is in the download step only with the version directory made (its
\* mkdir step succeeded and the directory exists), so no file is opened before
\* it; a failed mkdir ends the run with code 1 and without a GET for the jar;
\* and a download that ran without error leaves the jar at the canonical path.
C8_DirBeforeWrite ==
    \A r \in procs :
        /\ (pc[r] = "dl_stat" \/ InDownload(r) \/ Did(r, "download") \/ out[r].ino # NoFile) =>
              /\ HasEntry(r, "mkdir", "ok")
              /\ vid[r] \in dirs
        /\ HasEntry(r, "mkdir", "io") =>
              /\ pc[r] = "exit" /\ exitCode[r] = 1
              /\ requests[r] = <<versionManifestURL, vurl[r]>>
              /\ out[r].ino = NoFile
              /\ ~Did(r, "download")
        /\ HasEntry(r, "download", "ok") =>
              /\ names[JarOf(vid[r])] # NoFile
              /\ Content(JarOf(vid[r])) = Body

\* C8 witness: the directory was not there, the run made it and downloaded the jar
C8_Witness ==
    \E r \in procs :
        /\ dirs = {vid[r]}
        /\ HasEntry(r, "download", "ok")
        /\ names[JarOf(vid[r])] = <<"new", r>>

\* C9: with two runs at once, the canonical path holds other than the whole
\* body only if both runs opened the very file that is now at the canonical
\* path; and two files open at once for one version are the same file.
C9_RaceOnPartial ==
    /\ \A v \in VersionIds :
         (CreatedJar(v) /\ Content(JarOf(v)) # Body) =>
            \A r \in procs : vid[r] = v /\ out[r].ino = names[JarOf(v)]
    /\ \A r1, r2 \in procs :
         (out[r1].open /\ out[r2].open /\ vid[r1] = vid[r2]) => out[r1].ino = out[r2].ino

\* C9 witness: one run has renamed the shared file to the canonical path while
\* the other is still writing it, and the content there is not the body
C9_Witness ==
    \E r1, r2 \in procs :
        /\ r1 # r2 /\ vid[r1] = vid[r2]
        /\ HasEntry(r1, "download", "ok")
        /\ alive[r2] /\ pc[r2] = "dl_copy" /\ out[r2].open
        /\ out[r2].ino = names[JarOf(vid[r2])]
        /\ Content(JarOf(vid[r2])) # Body

\* C10: a .partial file left by an earlier run does not make a run skip, and is
\* not resumed: the file is empty when the GET is issued and holds a prefix of
\* the body while it is copied; once the download succeeded the canonical path
\* holds the body and nothing else, and no .partial file is left.
C10_StalePartial ==
    \A r \in procs :
        /\ HasEntry(r, "download", "skipped") =>
              names[JarOf(vid[r])] = InitialInode(JarOf(vid[r]))
        /\ (alive[r] /\ pc[r] \in {"dl_get", "dl_copy"}) =>
              inodes[out[r].ino] = SubSeq(Body, 1, out[r].off)
        /\ HasEntry(r, "download", "ok") =>
              /\ Content(JarOf(vid[r])) = Body
              /\ \A i \in 1..Len(Content(JarOf(vid[r]))) : Content(JarOf(vid[r]))[i] # -1
              /\ names[PartialOf(vid[r])] = NoFile

\* C10 witness: the stale .partial file was the one opened, and it is now the jar
C10_Witness ==
    \E r \in procs :
        /\ HasEntry(r, "download", "ok")
        /\ names[JarOf(vid[r])] = InitialInode(PartialOf(vid[r]))

====
